---- MODULE Spec2Model ----
(***************************************************************************)
(* Model of smartfix.py: SMART self-test orchestration, sector repair via  *)
(* hdparm with de-duplication, bounded selective verify, and the two       *)
(* driver modes of main() (one-shot and counted loop).                     *)
(*                                                                         *)
(* Text is modelled as sequences of one-character strings so that         *)
(* str.lower(), the `in` substring test and == on text are computed.       *)
(* JSON values that the code type-checks with isinstance(..., int) are     *)
(* records [k |-> "int" | "absent", n |-> value].                          *)
(***************************************************************************)
EXTENDS Integers, Sequences, FiniteSets, TLC

\* ------------------------------------------------------------ bounds
MaxLBA == 2        \* failing LBAs reported by the drive are in 0..MaxLBA
MaxPend == 2       \* raw value of attribute 197 is in 0..MaxPend
MaxRetries == 2    \* --verify-retries is in -1..MaxRetries
MaxPolls == 2      \* poll cycles of one wait that are told apart

\* ------------------------------------------------------------ program constants
SENTINEL == 249    \* status value meaning "self-test in progress"
ATTR_PENDING == 197 \* id of Current_Pending_Sector
DEFAULT_RETRIES == 2 \* default of --verify-retries
DELTA == 5         \* half-width of the post-repair selective verify

\* ------------------------------------------------------------ text
UpperChars == <<"A","B","C","D","E","F","G","H","I","J","K","L","M",
                "N","O","P","Q","R","S","T","U","V","W","X","Y","Z">>
LowerChars == <<"a","b","c","d","e","f","g","h","i","j","k","l","m",
                "n","o","p","q","r","s","t","u","v","w","x","y","z">>

\* str.lower() on one character
LowerChar(c) ==
    IF \E i \in 1..26 : UpperChars[i] = c
    THEN LowerChars[CHOOSE i \in 1..26 : UpperChars[i] = c]
    ELSE c

\* str.lower()
Lower(s) == [i \in 1..Len(s) |-> LowerChar(s[i])]

\* Python `sub in s` on text
Contains(s, sub) ==
    \E i \in 1..(Len(s) - Len(sub) + 1) : SubSeq(s, i, i + Len(sub) - 1) = sub

STR_IN_PROGRESS == <<"i","n"," ","p","r","o","g","r","e","s","s">>
STR_INTERRUPTED == <<"i","n","t","e","r","r","u","p","t","e","d">>
STR_ABORTED == <<"a","b","o","r","t","e","d">>
STR_HOST_RESET == <<"h","o","s","t"," ","r","e","s","e","t">>
READ_FAILURE == <<"C","o","m","p","l","e","t","e","d",":"," ","r","e","a","d"," ","f","a","i","l","u","r","e">>

\* status strings of `smartctl -c` used as fixtures
S_Routine == <<"S","e","l","f","-","t","e","s","t"," ","r","o","u","t","i","n","e"," ","i","n"," ","p","r","o","g","r","e","s","s">>
S_Upper == <<"S","E","L","F","-","T","E","S","T"," ","I","N"," ","P","R","O","G","R","E","S","S">>
S_Done == <<"c","o","m","p","l","e","t","e","d"," ","w","i","t","h","o","u","t"," ","e","r","r","o","r">>
S_Near == <<"i","n"," ","p","r","o","g","r","e","s">>

\* status strings of self-test log entries used as fixtures
L_rf_lower == <<"c","o","m","p","l","e","t","e","d",":"," ","r","e","a","d"," ","f","a","i","l","u","r","e">>
L_Ok == <<"C","o","m","p","l","e","t","e","d"," ","w","i","t","h","o","u","t"," ","e","r","r","o","r">>
L_Interrupted == <<"I","n","t","e","r","r","u","p","t","e","d">>
L_Aborted == <<"A","b","o","r","t","e","d"," ","b","y"," ","h","o","s","t">>
L_HostReset == <<"H","O","S","T"," ","R","E","S","E","T">>

\* ------------------------------------------------------------ JSON values
IntVal(n) == [k |-> "int", n |-> n]
Absent == [k |-> "absent", n |-> 0]
IsInt(v) == v.k = "int"

\* smartjson() returns None when the output does not parse
NoData == [ok |-> FALSE]

\* ------------------------------------------------------------ smartctl -c
\* What the drive answers to `smartctl -j -c` while a self-test runs: the
\* textual marker, the sentinel value 249, or both.
BusyStatusData ==
    { [ok |-> TRUE, string |-> S_Routine, value |-> IntVal(SENTINEL),
       remaining_percent |-> IntVal(50)],
      [ok |-> TRUE, string |-> S_Upper, value |-> Absent, remaining_percent |-> Absent],
      [ok |-> TRUE, string |-> S_Done, value |-> IntVal(SENTINEL),
       remaining_percent |-> Absent] }

\* ... and while no self-test runs.
IdleStatusData ==
    { [ok |-> TRUE, string |-> S_Done, value |-> IntVal(0), remaining_percent |-> Absent],
      [ok |-> TRUE, string |-> S_Near, value |-> Absent, remaining_percent |-> Absent] }

\* every `-c` response the fixtures can form, and the failed query
AllStatusData ==
    { NoData } \cup
    { [ok |-> TRUE, string |-> s, value |-> v, remaining_percent |-> r] :
        s \in {S_Routine, S_Upper, S_Done, S_Near, <<>>},
        v \in {IntVal(SENTINEL), IntVal(0), IntVal(25), Absent},
        r \in {IntVal(50), IntVal(0), Absent} }

\* get_selftest_status() with a case-sensitive marker test
get_selftest_status_case_sensitive(data) ==
    IF ~data.ok
    THEN [in_progress |-> FALSE, remaining_percent |-> Absent,
          status_string |-> <<>>, raw_value |-> Absent]
    ELSE [in_progress |-> Contains(data.string, STR_IN_PROGRESS)
                          \/ (IsInt(data.value) /\ data.value.n = SENTINEL),
          remaining_percent |-> IF IsInt(data.remaining_percent)
                                THEN data.remaining_percent ELSE Absent,
          status_string |-> data.string,
          raw_value |-> IF IsInt(data.value) THEN data.value ELSE Absent]

\* get_selftest_status(): the snapshot built from one `-c` response
get_selftest_status(data) ==
    IF ~data.ok
    THEN [in_progress |-> FALSE, remaining_percent |-> Absent,
          status_string |-> <<>>, raw_value |-> Absent]
    ELSE LET s_str == data.string
             rem == data.remaining_percent
             val == data.value
             in_prog == Contains(Lower(s_str), STR_IN_PROGRESS)
                        \/ (IsInt(val) /\ val.n = SENTINEL)
         IN [in_progress |-> in_prog,
             remaining_percent |-> IF IsInt(rem) THEN rem ELSE Absent,
             status_string |-> s_str,
             raw_value |-> IF IsInt(val) THEN val ELSE Absent]

\* ------------------------------------------------------------ smartctl -A -l selftest
\* ata_smart_attributes.table fixtures: a table without attribute 197,
\* attribute 197 without raw.value, attribute 197 with a raw value.
AttrTables ==
    { <<[id |-> 5, value |-> IntVal(0)]>>,
      <<[id |-> 5, value |-> IntVal(0)], [id |-> ATTR_PENDING, value |-> Absent]>> }
    \cup
    { <<[id |-> 5, value |-> IntVal(0)], [id |-> ATTR_PENDING, value |-> IntVal(n)]>> :
        n \in 0..MaxPend }

\* ata_smart_self_test_log.standard.table fixtures, most recent entry first:
\* a clean history and one read failure at each LBA ...
PlainLogTables ==
    { <<[status |-> L_Ok, lba |-> Absent]>> }
    \cup { <<[status |-> READ_FAILURE, lba |-> IntVal(n)]>> : n \in 1..MaxLBA }

\* ... and the shapes the parsers have to tell apart: no history, a read
\* failure without a usable lba, other status texts, older entries behind
\* the most recent one.
OddLogTables ==
    { <<>> }
    \cup { <<[status |-> READ_FAILURE, lba |-> l]>> : l \in {Absent, IntVal(0)} }
    \cup { <<[status |-> s, lba |-> Absent]>> : s \in {L_Interrupted, L_Aborted, L_HostReset} }
    \cup { <<[status |-> L_rf_lower, lba |-> IntVal(1)]>> }
    \cup { <<[status |-> s, lba |-> l], [status |-> READ_FAILURE, lba |-> IntVal(MaxLBA)]>> :
             s \in {L_Ok, L_Interrupted, READ_FAILURE}, l \in {Absent, IntVal(1)} }

LogTables == PlainLogTables \cup OddLogTables

\* the answers smartjson(["-A", "-l", "selftest"]) can give: the failed query,
\* every attribute table with every plain history, every odd history with
\* one pending sector
SmartData ==
    { NoData }
    \cup { [ok |-> TRUE, attrs |-> a, log |-> t] : a \in AttrTables, t \in PlainLogTables }
    \cup { [ok |-> TRUE, attrs |-> <<[id |-> ATTR_PENDING, value |-> IntVal(1)]>>, log |-> t] :
             t \in OddLogTables }

\* the same answers as far as get_last_selftest_entry() reads them: it never
\* looks at the attribute table
LastEntryData ==
    { NoData } \cup { [ok |-> TRUE, attrs |-> <<>>, log |-> t] : t \in LogTables }

\* lines 205-218: first attribute with id 197, its raw value or -1
pendcount_of(data) ==
    LET tab == data.attrs
        hits == { i \in 1..Len(tab) : tab[i].id = ATTR_PENDING }
    IN IF hits = {} THEN -1
       ELSE LET i == CHOOSE i \in hits : \A j \in hits : i <= j
            IN IF IsInt(tab[i].value) THEN tab[i].value.n ELSE -1

\* lines 221-233: sector_found, 0 standing for None
sector_found_of(data) ==
    LET tab == data.log
        hits == { i \in 1..Len(tab) : tab[i].status = READ_FAILURE }
    IN IF hits = {} THEN 0
       ELSE LET i == CHOOSE i \in hits : \A j \in hits : i <= j
            IN IF IsInt(tab[i].lba) /\ tab[i].lba.n > 0 THEN tab[i].lba.n ELSE 0

\* refresh_pending_and_failure() taking a new sector only when none is known
refresh_first_sector_only(data, cur_pendcount, cur_sector, cur_pendline) ==
    IF ~data.ok
    THEN [ok |-> FALSE, pendcount |-> cur_pendcount, sector |-> cur_sector,
          pendline |-> cur_pendline]
    ELSE LET sector_found == sector_found_of(data)
             take == sector_found # 0 /\ cur_sector = 0
         IN [ok |-> TRUE,
             pendcount |-> pendcount_of(data),
             sector |-> IF take THEN sector_found ELSE cur_sector,
             pendline |-> IF take THEN READ_FAILURE ELSE cur_pendline]

\* refresh_pending_and_failure(): the globals after the call and its result
refresh_pending_and_failure(data, cur_pendcount, cur_sector, cur_pendline) ==
    IF ~data.ok
    THEN [ok |-> FALSE, pendcount |-> cur_pendcount, sector |-> cur_sector,
          pendline |-> cur_pendline]
    ELSE LET sector_found == sector_found_of(data)
         IN [ok |-> TRUE,
             pendcount |-> pendcount_of(data),
             sector |-> IF sector_found # 0 THEN sector_found ELSE cur_sector,
             pendline |-> IF sector_found # 0 THEN READ_FAILURE ELSE cur_pendline]

\* get_last_selftest_entry(): status string of table[0], "" when unreadable
get_last_selftest_entry(data) ==
    IF ~data.ok \/ data.log = <<>> THEN <<>>
    ELSE LET entry == data.log[1]
             lba == IF entry.lba.k = "absent" THEN IntVal(0) ELSE entry.lba
         IN IF IsInt(lba) THEN entry.status ELSE <<>>

\* line 314: the inconclusive outcomes of a selective verify
is_interrupted(status_str) ==
    LET s_lower == Lower(status_str)
    IN Contains(s_lower, STR_INTERRUPTED) \/ Contains(s_lower, STR_ABORTED)
       \/ Contains(s_lower, STR_HOST_RESET)

\* the retry test off by one
may_retry_one_less(n_attempts, retries) == n_attempts < retries

\* lines 315-321: retry while attempts <= VERIFY_RETRIES
may_retry(n_attempts, retries) == n_attempts <= retries

\* the verified range without the clamp at 0
verify_range_unclamped(lba, delta) == <<lba - delta, lba + delta>>

\* lines 298-301: the verified range
verify_range(lba, delta) ==
    LET start == lba - delta
    IN <<IF start < 0 THEN 0 ELSE start, lba + delta>>

\* the short-test condition without the skip flag
short_test_first_ignoring_skip(skip, rngs) == rngs = <<>>

\* line 369: the initial short test runs unless skipped or ranges were given
short_test_first(skip, rngs) == ~skip /\ rngs = <<>>

\* the loop test admitting an exhausted budget
budget_left_inclusive(counter) == counter >= 0

\* line 447: while pendcounter > 0
budget_left(counter) == counter > 0

\* the polling loop leaving after any query
poll_done_always(snapshot) == TRUE

\* line 120: the polling loop is left when the snapshot is not in progress
poll_done(snapshot) == ~snapshot.in_progress

\* the one-shot test off by one
has_first_error_above_one(sec) == sec > 1

\* line 381: the one-shot path has a sector to repair
has_first_error(sec) == sec > 0

\* the unknown-count test missing the sentinel
pend_unknown_below(count) == count < -1

\* line 441: the pending count is unknown
pend_unknown(count) == count = -1

\* fix_sector() without the lastsector test
fix_sector_no_dedup(sec, last, code) ==
    IF sec = 0
    THEN [result |-> "raised", hdparm |-> <<>>, logger |-> 0, lastsector |-> last,
          code |-> code]
    ELSE [result |-> "repaired", hdparm |-> <<sec>>, logger |-> 1, lastsector |-> sec,
          code |-> code]

\* fix_sector() recording the sector only when hdparm succeeded
fix_sector_success_only(sec, last, code) ==
    IF sec = 0
    THEN [result |-> "raised", hdparm |-> <<>>, logger |-> 0, lastsector |-> last,
          code |-> code]
    ELSE IF sec = last
    THEN [result |-> "skipped", hdparm |-> <<>>, logger |-> 0, lastsector |-> last,
          code |-> code]
    ELSE [result |-> "repaired", hdparm |-> <<sec>>, logger |-> 1,
          lastsector |-> IF code = 0 THEN sec ELSE last, code |-> code]

\* fix_sector() without the zero test
fix_sector_no_zero_test(sec, last, code) ==
    IF sec = last
    THEN [result |-> "skipped", hdparm |-> <<>>, logger |-> 0, lastsector |-> last,
          code |-> code]
    ELSE [result |-> "repaired", hdparm |-> <<sec>>, logger |-> 1, lastsector |-> sec,
          code |-> code]

\* fix_sector(): what one call does, given the exit code hdparm would return
fix_sector(sec, last, code) ==
    IF sec = 0
    THEN [result |-> "raised", hdparm |-> <<>>, logger |-> 0, lastsector |-> last,
          code |-> code]
    ELSE IF sec = last
    THEN [result |-> "skipped", hdparm |-> <<>>, logger |-> 0, lastsector |-> last,
          code |-> code]
    ELSE [result |-> "repaired", hdparm |-> <<sec>>, logger |-> 1, lastsector |-> sec,
          code |-> code]

\* ------------------------------------------------------------ state
VARIABLES
    pc,               \* position of main() or of the function it is in
    stack,            \* return positions of the calls in progress
    skip_short,       \* args.skip_short
    fix_first_error,  \* args.fix_first_error
    ASSUME_YES,       \* global ASSUME_YES
    VERIFY_RETRIES,   \* global VERIFY_RETRIES
    ranges,           \* parse_ranges(args.select)
    sector,           \* global sector
    lastsector,       \* global lastsector
    pendcount,        \* global pendcount
    pendline,         \* global pendline
    pendcounter,      \* main(): the loop budget
    repaired_lba,     \* main(): the sector of the one-shot repair
    attempts,         \* run_verify_selective_around(): attempts
    outcome,          \* result of run_verify_selective_around()
    vrange,           \* run_verify_selective_around(): (start, end)
    lba,              \* run_verify_selective_around(): parameter lba
    delta,            \* run_verify_selective_around(): parameter delta
    sel_ranges,       \* start_selective_tests(): argument
    sel_i,            \* start_selective_tests(): index of the next range
    testing,          \* the drive: a self-test is in progress
    exitcode,         \* exit status of the process, -1 while it runs
    \* ---- what the run did, recorded for the properties
    repairs,          \* sectors passed to hdparm --repair-sector, in order
    logged,           \* number of logger invocations
    fix_calls,        \* number of fix_sector() calls
    fix_result,       \* how the latest fix_sector() call ended
    hdparm_code,      \* exit code of the hdparm run made since the latest
                      \* PendingInfo query, -1 when there was none
    first_read,       \* failing LBA the first PendingInfo query reported: -1 if the
                      \* query failed, -2 before it
    last_read,        \* the same for the latest PendingInfo query
    reads,            \* the same for every PendingInfo query of a counted-loop run
    n_reads,          \* number of PendingInfo queries so far
    start_pend,       \* pendcount when the counted loop was about to start
    status_data,      \* get_selftest_status() on its own: the response given
    status,           \* get_selftest_status() on its own: the snapshot returned
    starts_ok,        \* no start command so far was issued while a self-test ran
    status_ok,        \* every get_selftest_status() so far got a parsed response
    tracing,          \* whether the poll cycles of a wait are recorded
    wtrace,           \* wait: per cycle "busy" or "idle" for what the query
                      \* reported, then "sleep" for time.sleep(poll_interval)
    vtrace,           \* verify: "test" per selective start, "sleep" per VERIFY_WAIT
    all_interrupted,  \* verify: every attempt's latest log entry was an interruption
    last_entry        \* verify: what the history gave the latest attempt: "unread",
                      \* an "interrupted" entry, a "completed" one; "none" before

cfgv == <<skip_short, fix_first_error, ASSUME_YES, VERIFY_RETRIES, ranges>>
globv == <<sector, pendcount, pendline>>
fixv == <<lastsector, repairs, logged, fix_calls, fix_result>>
readv == <<first_read, last_read, reads, n_reads, hdparm_code>>
statv == <<status_data, status, tracing>>
verv == <<attempts, outcome, vrange, vtrace, all_interrupted, last_entry, lba, delta>>
selv == <<sel_ranges, sel_i>>
devv == <<testing, starts_ok, status_ok, wtrace>>
vars == <<pc, stack, cfgv, statv, globv, fixv, readv, verv, selv, devv, pendcounter,
          repaired_lba, exitcode, start_pend>>

\* --select fixtures after parse_ranges()
RangeLists == { <<>>, <<(<<0, 1>>)>>, <<(<<0, 1>>), (<<2, 2>>)>> }

\* before get_selftest_status() has returned anything
NoSnapshot == [in_progress |-> FALSE, remaining_percent |-> Absent,
               status_string |-> <<"?">>, raw_value |-> Absent]

\* module globals (lines 31-41) and the locals of a run not yet started
Defaults ==
    /\ stack = <<>>
    /\ sector = 0 /\ lastsector = -1 /\ pendcount = -1 /\ pendline = <<>>
    /\ pendcounter = 0 /\ repaired_lba = -1
    /\ attempts = 0 /\ outcome = "none" /\ vrange = <<0, 0>>
    /\ sel_ranges = <<>> /\ sel_i = 1
    /\ exitcode = -1
    /\ repairs = <<>> /\ logged = 0 /\ fix_calls = 0 /\ fix_result = "none"
    /\ hdparm_code = -1
    /\ first_read = -2 /\ last_read = -2 /\ reads = <<>> /\ n_reads = 0 /\ start_pend = -2
    /\ status = NoSnapshot /\ starts_ok = TRUE /\ status_ok = TRUE
    /\ vtrace = <<>> /\ all_interrupted = TRUE /\ wtrace = <<>>
    /\ last_entry = "none"

\* main() lines 336-358: the parsed command line; the drive may be busy
Init ==
    /\ pc = "m_confirm"
    /\ skip_short \in BOOLEAN /\ fix_first_error \in BOOLEAN /\ ASSUME_YES \in BOOLEAN
    /\ \E r \in (IF skip_short /\ fix_first_error THEN -1..MaxRetries
                 ELSE {DEFAULT_RETRIES}) :
          VERIFY_RETRIES = IF r < 0 THEN 0 ELSE r
    /\ ranges \in RangeLists
    /\ testing \in BOOLEAN
    /\ status_data = NoData /\ tracing = FALSE
    /\ lba = -1 /\ delta = 0
    /\ Defaults

\* ------------------------------------------------------------ control helpers
Call(target, rets) == pc' = target /\ stack' = rets \o stack
Return == pc' = Head(stack) /\ stack' = Tail(stack)
Goto(target) == pc' = target /\ UNCHANGED stack
Exit(code) == pc' = "done" /\ exitcode' = code /\ UNCHANGED stack

\* ------------------------------------------------------------ the drive
\* Answers of one status query: a running test may have finished meanwhile,
\* a parsed answer tells the truth, and the query may fail altogether.
StatusAnswers ==
    UNION { { [t |-> t, data |-> d] :
                d \in {NoData} \cup (IF t THEN BusyStatusData ELSE IdleStatusData) } :
            t \in (IF testing THEN BOOLEAN ELSE {FALSE}) }

\* facts about a status response, stated independently of the parser
HasInProgressMarker(data) ==
    /\ data.ok
    /\ \E i \in 1..Len(data.string) :
          /\ i + Len(STR_IN_PROGRESS) - 1 <= Len(data.string)
          /\ \A j \in 1..Len(STR_IN_PROGRESS) :
                LowerChar(data.string[i + j - 1]) = STR_IN_PROGRESS[j]
HasSentinel(data) == data.ok /\ data.value = IntVal(SENTINEL)

\* one get_selftest_status() call answered by a
StatusQueried(a) ==
    /\ testing' = a.t
    /\ status_ok' = (status_ok /\ a.data.ok)
    /\ UNCHANGED starts_ok

\* one `smartctl -t ...` start command
StartIssued ==
    /\ testing' = TRUE
    /\ starts_ok' = (starts_ok /\ ~testing)
    /\ UNCHANGED <<status_ok, wtrace>>

\* ------------------------------------------------------------ self-test orchestration
\* ensure_no_active_selftest()
ensure_no_active_selftest ==
    /\ pc = "e_query"
    /\ \E a \in StatusAnswers :
         LET snapshot == get_selftest_status(a.data)
         IN /\ StatusQueried(a)
            /\ IF snapshot.in_progress THEN Goto("w_poll") ELSE Return
    /\ UNCHANGED wtrace
    /\ UNCHANGED <<cfgv, statv, globv, fixv, readv, verv, selv, pendcounter, repaired_lba,
                   exitcode, start_pend>>

\* wait_for_selftest_completion(): one cycle of the polling loop, lines
\* 119-120 and 132-137; cycles past MaxPolls are not told apart
wait_for_selftest_completion ==
    /\ pc = "w_poll"
    /\ \E a \in StatusAnswers :
         LET snapshot == get_selftest_status(a.data)
             reported == IF snapshot.in_progress THEN "busy" ELSE "idle"
         IN /\ StatusQueried(a)
            /\ IF poll_done(snapshot)
               THEN /\ wtrace' = IF tracing THEN Append(wtrace, reported) ELSE wtrace
                    /\ Goto("w_done")
               ELSE /\ wtrace' = IF tracing /\ Len(wtrace) < 2 * MaxPolls
                                 THEN wtrace \o <<reported, "sleep">>
                                 ELSE wtrace
                    /\ Goto("w_poll")
    /\ UNCHANGED <<cfgv, statv, globv, fixv, readv, verv, selv, pendcounter, repaired_lba,
                   exitcode, start_pend>>

\* lines 121-131: the final status line is printed, the loop is left
wait_done ==
    /\ pc = "w_done"
    /\ wtrace' = <<>>
    /\ Return
    /\ UNCHANGED <<cfgv, statv, globv, fixv, readv, verv, selv, testing, starts_ok,
                   status_ok, pendcounter, repaired_lba, exitcode, start_pend>>

\* start_short_test(), after ensure_no_active_selftest() returned
start_short_test ==
    /\ pc = "s_start"
    /\ StartIssued
    /\ Goto("w_poll")
    /\ UNCHANGED <<cfgv, statv, globv, fixv, readv, verv, selv, pendcounter, repaired_lba,
                   exitcode, start_pend>>

\* start_selective_tests(), the for loop after ensure_no_active_selftest()
start_selective_tests ==
    /\ pc = "t_loop"
    /\ IF sel_i <= Len(sel_ranges)
       THEN /\ StartIssued
            /\ sel_i' = sel_i + 1
            /\ vtrace' = IF attempts > 0 THEN Append(vtrace, "test") ELSE vtrace
            /\ Call("w_poll", <<"t_loop">>)
            /\ UNCHANGED sel_ranges
       ELSE /\ Return
            /\ sel_ranges' = <<>> /\ sel_i' = 1
            /\ UNCHANGED <<devv, vtrace>>
    /\ UNCHANGED <<cfgv, statv, globv, fixv, readv, attempts, outcome, vrange, all_interrupted,
                   last_entry, lba, delta, pendcounter, repaired_lba, exitcode, start_pend>>

\* ------------------------------------------------------------ PendingInfo
\* What a response reports, stated from the interface (section 6), not from
\* the parser: the first "Completed: read failure" entry of the history ...
RECURSIVE FirstFailure(_)
FirstFailure(tab) ==
    IF tab = <<>> THEN Absent
    ELSE IF Head(tab).status = READ_FAILURE THEN Head(tab).lba
    ELSE FirstFailure(Tail(tab))

\* ... and its lba when present and positive, else 0
ReportedLBA(data) ==
    IF ~data.ok THEN 0
    ELSE LET l == FirstFailure(data.log)
         IN IF l.k = "int" /\ l.n > 0 THEN l.n ELSE 0

\* the most recent history entry, when there is one, reports an interruption
EntrySaysInterrupted(data) ==
    /\ data.ok
    /\ data.log # <<>>
    /\ \E m \in {STR_INTERRUPTED, STR_ABORTED, STR_HOST_RESET} :
          Contains(Lower(data.log[1].status), m)

\* what the history gives a reader of its most recent entry
EntryRead(data) ==
    IF ~data.ok \/ data.log = <<>> THEN "unread"
    ELSE IF EntrySaysInterrupted(data) THEN "interrupted"
    ELSE "completed"

\* one refresh_pending_and_failure() call answered by data, r its effect
Refreshed(data, r) ==
    /\ sector' = r.sector /\ pendcount' = r.pendcount /\ pendline' = r.pendline
    /\ n_reads' = n_reads + 1
    /\ hdparm_code' = -1
    /\ LET reported == IF data.ok THEN ReportedLBA(data) ELSE -1
       IN /\ last_read' = reported
          /\ first_read' = IF first_read = -2 THEN reported ELSE first_read
          /\ reads' = IF skip_short /\ fix_first_error THEN reads
                      ELSE Append(reads, reported)

\* one fix_sector() call, f its effect
Fixed(f) ==
    /\ lastsector' = f.lastsector
    /\ repairs' = repairs \o f.hdparm
    /\ logged' = logged + f.logger
    /\ fix_calls' = fix_calls + 1
    /\ fix_result' = f.result
    /\ hdparm_code' = IF f.hdparm # <<>> THEN f.code ELSE hdparm_code

\* confirm() asking even under --assume-yes
confirm_asks == BOOLEAN

\* confirm(): auto-yes, or what the user types
confirm == IF ASSUME_YES THEN {TRUE} ELSE BOOLEAN

\* exit codes hdparm may return
HdparmCodes == {0, 1}

\* ------------------------------------------------------------ verification
\* run_verify_selective_around(): top of the while loop, lines 304-307
verify_attempt ==
    /\ pc = "v_attempt"
    /\ attempts' = attempts + 1
    /\ sel_ranges' = <<vrange>> /\ sel_i' = 1
    /\ Call("e_query", <<"t_loop", "v_check">>)
    /\ UNCHANGED <<cfgv, statv, globv, fixv, readv, outcome, vrange, vtrace, all_interrupted,
                   last_entry, lba, delta, devv, pendcounter, repaired_lba, exitcode,
                   start_pend>>

\* lines 310-321: inspect the latest log entry, retry or give up
verify_check ==
    /\ pc = "v_check"
    /\ \E data \in LastEntryData :
         LET status_str == get_last_selftest_entry(data)
         IN /\ all_interrupted' = (all_interrupted /\ EntrySaysInterrupted(data))
            /\ last_entry' = EntryRead(data)
            /\ IF is_interrupted(status_str)
               THEN IF may_retry(attempts, VERIFY_RETRIES)
                    THEN /\ vtrace' = Append(vtrace, "sleep")
                         /\ Goto("v_attempt")
                         /\ UNCHANGED <<outcome, attempts, vrange>>
                    ELSE /\ outcome' = "interrupted"
                         /\ Return
                         /\ attempts' = 0 /\ vrange' = <<0, 0>>
                         /\ UNCHANGED vtrace
               ELSE /\ Goto("v_refresh")
                    /\ UNCHANGED <<outcome, vtrace, attempts, vrange>>
    /\ UNCHANGED <<cfgv, statv, globv, fixv, readv, selv, devv, lba, delta, pendcounter,
                   repaired_lba, exitcode, start_pend>>

\* lines 324-330: refresh and classify
verify_classify ==
    /\ pc = "v_refresh"
    /\ \E data \in SmartData :
         Refreshed(data, refresh_pending_and_failure(data, pendcount, sector, pendline))
    /\ outcome' = IF sector' = 0 THEN "clear" ELSE "failed"
    /\ Return
    /\ attempts' = 0 /\ vrange' = <<0, 0>>
    /\ UNCHANGED <<cfgv, statv, fixv, vtrace, all_interrupted, last_entry, lba, delta, selv, devv,
                   pendcounter, repaired_lba, exitcode, start_pend>>

\* ------------------------------------------------------------ main()
\* lines 360-363
main_confirm ==
    /\ pc = "m_confirm"
    /\ IF ASSUME_YES
       THEN Goto("m_short") /\ UNCHANGED exitcode
       ELSE \E cont \in BOOLEAN :
              IF cont THEN Goto("m_short") /\ UNCHANGED exitcode ELSE Exit(0)
    /\ UNCHANGED <<cfgv, statv, globv, fixv, readv, verv, selv, devv, pendcounter,
                   repaired_lba, start_pend>>

\* lines 369-370
main_short ==
    /\ pc = "m_short"
    /\ IF short_test_first(skip_short, ranges)
       THEN Call("e_query", <<"s_start", "m_select">>)
       ELSE Goto("m_select")
    /\ UNCHANGED <<cfgv, statv, globv, fixv, readv, verv, selv, devv, pendcounter,
                   repaired_lba, exitcode, start_pend>>

\* lines 372-373
main_select ==
    /\ pc = "m_select"
    /\ IF ranges # <<>>
       THEN /\ sel_ranges' = ranges /\ sel_i' = 1
            /\ Call("e_query", <<"t_loop", "m_refresh">>)
       ELSE Goto("m_refresh") /\ UNCHANGED selv
    /\ ranges' = <<>>     \* main() does not read ranges again
    /\ UNCHANGED <<skip_short, fix_first_error, ASSUME_YES, VERIFY_RETRIES, statv, globv, fixv, readv, verv, devv, pendcounter,
                   repaired_lba, exitcode, start_pend>>

\* lines 376-377
main_refresh ==
    /\ pc = "m_refresh"
    /\ \E data \in SmartData :
         LET r == refresh_pending_and_failure(data, pendcount, sector, pendline)
         IN /\ Refreshed(data, r)
            /\ IF ~r.ok THEN Exit(1) ELSE Goto("m_mode") /\ UNCHANGED exitcode
    /\ UNCHANGED <<cfgv, statv, fixv, verv, selv, devv, pendcounter, repaired_lba, start_pend>>

\* lines 380-381, 436-438 and 441-445: pick the mode
main_mode ==
    /\ pc = "m_mode"
    /\ IF skip_short /\ fix_first_error
       THEN /\ IF has_first_error(sector) THEN Goto("o_fix") /\ UNCHANGED exitcode ELSE Exit(0)
            /\ UNCHANGED <<pendcounter, start_pend>>
       ELSE /\ start_pend' = pendcount
            /\ IF pend_unknown(pendcount)
               THEN Exit(1) /\ UNCHANGED pendcounter
               ELSE /\ pendcounter' = pendcount
                    /\ Goto("l_head") /\ UNCHANGED exitcode
    /\ UNCHANGED <<cfgv, statv, globv, fixv, readv, verv, selv, devv, repaired_lba>>

\* ---- one-shot path
\* lines 383-389: the single repair
oneshot_fix ==
    /\ pc = "o_fix"
    /\ \E code \in HdparmCodes : Fixed(fix_sector(sector, lastsector, code))
    /\ repaired_lba' = lastsector'
    /\ Goto("o_reread")
    /\ UNCHANGED <<cfgv, statv, globv, first_read, last_read, reads, n_reads, verv, selv,
                   devv, pendcounter, exitcode, start_pend>>

\* lines 391-429: re-read and branch on post_lba
oneshot_reread ==
    /\ pc = "o_reread"
    /\ \E data \in SmartData :
         Refreshed(data, refresh_pending_and_failure(data, pendcount, sector, pendline))
    /\ LET post_lba == sector'
       IN IF post_lba = 0 THEN Goto("o_end")
          ELSE IF post_lba = repaired_lba THEN Goto("o_offer")
          ELSE Goto("o_end")
    /\ UNCHANGED <<cfgv, statv, fixv, verv, selv, devv, pendcounter, repaired_lba, exitcode,
                   start_pend>>

\* lines 405-406 and 415-416: offer the selective verify
oneshot_offer ==
    /\ pc = "o_offer"
    /\ \E yes \in confirm :
         IF yes
         THEN /\ lba' = repaired_lba /\ delta' = DELTA
              /\ attempts' = 0 /\ outcome' = "none"
              /\ vrange' = verify_range(lba', delta')
              /\ vtrace' = <<>> /\ all_interrupted' = TRUE /\ last_entry' = "none"
              /\ Call("v_attempt", <<"o_verified">>)
         ELSE Goto("o_offer_short") /\ UNCHANGED verv
    /\ UNCHANGED <<cfgv, statv, globv, fixv, readv, selv, devv, pendcounter, repaired_lba,
                   exitcode, start_pend>>

\* lines 407-409: after the verify, the fallback short test
oneshot_verified ==
    /\ pc = "o_verified"
    /\ IF outcome = "interrupted"
       THEN \E yes \in confirm :
              IF yes THEN Call("e_query", <<"s_start", "o_short_done">>)
              ELSE Goto("o_end")
       ELSE Goto("o_end")
    /\ vtrace' = <<>> /\ all_interrupted' = TRUE /\ last_entry' = "none"
    /\ UNCHANGED <<cfgv, statv, globv, fixv, readv, attempts, outcome, vrange, lba, delta,
                   selv, devv, pendcounter, repaired_lba, exitcode, start_pend>>

\* lines 416-424: verify declined, a short test instead
oneshot_offer_short ==
    /\ pc = "o_offer_short"
    /\ \E yes \in confirm :
         IF yes THEN Call("e_query", <<"s_start", "o_short_done">>)
         ELSE Goto("o_end")
    /\ UNCHANGED <<cfgv, statv, globv, fixv, readv, verv, selv, devv, pendcounter,
                   repaired_lba, exitcode, start_pend>>

\* lines 410-414 and 418-422: the read after the short test
oneshot_short_done ==
    /\ pc = "o_short_done"
    /\ \E data \in SmartData :
         Refreshed(data, refresh_pending_and_failure(data, pendcount, sector, pendline))
    /\ Goto("o_end")
    /\ UNCHANGED <<cfgv, statv, fixv, verv, selv, devv, pendcounter, repaired_lba, exitcode,
                   start_pend>>

\* lines 431-435: the debug status read, then exit 0
oneshot_end ==
    /\ pc = "o_end"
    /\ \E DEBUG \in BOOLEAN :
         IF DEBUG
         THEN (\E a \in StatusAnswers : StatusQueried(a)) /\ UNCHANGED wtrace
         ELSE UNCHANGED devv
    /\ Exit(0)
    /\ UNCHANGED <<cfgv, statv, globv, fixv, readv, verv, selv, pendcounter, repaired_lba,
                   start_pend>>

\* ---- counted loop
\* lines 447-459: loop test, repair attempt, budget decrement
loop_head ==
    /\ pc = "l_head"
    /\ IF budget_left(pendcounter)
       THEN IF sector # 0
            THEN \E code \in HdparmCodes :
                   LET f == fix_sector(sector, lastsector, code)
                   IN /\ Fixed(f)
                      /\ IF f.result = "raised"
                         THEN Exit(0) /\ UNCHANGED pendcounter
                         ELSE /\ pendcounter' = pendcounter - 1
                              /\ Goto("l_reread") /\ UNCHANGED exitcode
            ELSE Exit(0) /\ UNCHANGED <<fixv, hdparm_code, pendcounter>>
       ELSE Exit(0) /\ UNCHANGED <<fixv, hdparm_code, pendcounter>>
    /\ UNCHANGED <<cfgv, statv, globv, first_read, last_read, reads, n_reads, verv, selv, devv,
                   repaired_lba, start_pend>>

\* lines 461-465: re-read after the attempt
loop_reread ==
    /\ pc = "l_reread"
    /\ \E data \in SmartData :
         LET r == refresh_pending_and_failure(data, pendcount, sector, pendline)
         IN /\ Refreshed(data, r)
            /\ IF ~r.ok THEN Exit(0)
               ELSE IF r.sector = 0 THEN Exit(0)
               ELSE Goto("l_head") /\ UNCHANGED exitcode
    /\ UNCHANGED <<cfgv, statv, fixv, verv, selv, devv, pendcounter, repaired_lba, start_pend>>

Next ==
    \/ main_confirm \/ main_short \/ main_select \/ main_refresh \/ main_mode
    \/ ensure_no_active_selftest \/ wait_for_selftest_completion \/ wait_done
    \/ start_short_test \/ start_selective_tests
    \/ verify_attempt \/ verify_check \/ verify_classify
    \/ oneshot_fix \/ oneshot_reread \/ oneshot_offer \/ oneshot_verified
    \/ oneshot_offer_short \/ oneshot_short_done \/ oneshot_end
    \/ loop_head \/ loop_reread

Spec == Init /\ [][Next]_vars

\* ------------------------------------------------------------ fix_sector() on its own
\* Any sequence of fix_sector() calls with the global sector set freely in
\* between, as a caller of the function can do.
MaxCalls == 3

CallsInit ==
    /\ pc = "calls"
    /\ skip_short = FALSE /\ fix_first_error = FALSE /\ ASSUME_YES = FALSE
    /\ VERIFY_RETRIES = DEFAULT_RETRIES /\ ranges = <<>> /\ testing = FALSE
    /\ status_data = NoData /\ tracing = FALSE
    /\ lba = -1 /\ delta = 0
    /\ Defaults

calls_set_sector ==
    /\ pc = "calls"
    /\ sector' \in 0..MaxLBA
    /\ UNCHANGED <<pc, stack, cfgv, statv, pendcount, pendline, fixv, readv, verv, selv, devv,
                   pendcounter, repaired_lba, exitcode, start_pend>>

calls_fix_sector ==
    /\ pc = "calls"
    /\ fix_calls < MaxCalls
    /\ \E code \in HdparmCodes : Fixed(fix_sector(sector, lastsector, code))
    /\ UNCHANGED <<pc, stack, cfgv, statv, globv, first_read, last_read, reads, n_reads, verv,
                   selv, devv, pendcounter, repaired_lba, exitcode, start_pend>>

\* main() with its counted loop always taking its next step: nothing in the
\* loop blocks, hdparm and smartctl are run to completion (lines 63-69)
SpecLoop == Spec /\ WF_vars(loop_head) /\ WF_vars(loop_reread)

\* ------------------------------------------------------------ the test runners on their own
\* start_short_test() or start_selective_tests(ranges) called on a drive
\* that may be busy, the poll cycles of every wait recorded.
TestsInit ==
    /\ pc = "tests"
    /\ skip_short = FALSE /\ fix_first_error = FALSE /\ ASSUME_YES = FALSE
    /\ VERIFY_RETRIES = DEFAULT_RETRIES /\ ranges \in RangeLists
    /\ testing \in BOOLEAN
    /\ status_data = NoData /\ tracing = TRUE
    /\ lba = -1 /\ delta = 0
    /\ Defaults

tests_call ==
    /\ pc = "tests"
    /\ IF ranges = <<>>
       THEN Call("e_query", <<"s_start", "tests_done">>) /\ UNCHANGED selv
       ELSE /\ sel_ranges' = ranges /\ sel_i' = 1
            /\ Call("e_query", <<"t_loop", "tests_done">>)
    /\ UNCHANGED <<cfgv, statv, globv, fixv, readv, verv, devv, pendcounter, repaired_lba,
                   exitcode, start_pend>>

TestsNext ==
    \/ tests_call \/ ensure_no_active_selftest \/ start_short_test
    \/ start_selective_tests \/ wait_for_selftest_completion \/ wait_done

\* the poll that finds the self-test finished: a drive that in the end
\* reports not-in-progress lets it happen
FinalPoll == wait_for_selftest_completion /\ pc' = "w_done"

SpecTests == TestsInit /\ [][TestsNext]_vars /\ WF_vars(FinalPoll)

SpecCalls ==
    (Init \/ CallsInit) /\ [][Next \/ calls_set_sector \/ calls_fix_sector]_vars

\* ------------------------------------------------------------ get_selftest_status() on its own
\* The function applied to each response the fixtures can form.
StatusInit ==
    /\ pc = "status"
    /\ skip_short = FALSE /\ fix_first_error = FALSE /\ ASSUME_YES = FALSE
    /\ VERIFY_RETRIES = DEFAULT_RETRIES /\ ranges = <<>> /\ testing = FALSE
    /\ status_data \in AllStatusData /\ tracing = FALSE
    /\ lba = -1 /\ delta = 0
    /\ Defaults

status_call ==
    /\ pc = "status"
    /\ status' = get_selftest_status(status_data)
    /\ pc' = "status_done"
    /\ UNCHANGED <<stack, cfgv, status_data, tracing, globv, fixv, readv, verv, selv, devv,
                   pendcounter, repaired_lba, exitcode, start_pend>>

SpecStatus == StatusInit /\ [][status_call]_vars

\* ------------------------------------------------------------ run_verify_selective_around() on its own
\* The function called with each lba and delta of the fixtures, on an idle
\* drive, with the module globals at their defaults.
MaxVerifyLBA == 7
MaxDelta == 6
VerifyLBAs == (0..MaxVerifyLBA) \cup {100}

VerifyInit ==
    /\ pc = "verify"
    /\ skip_short = TRUE /\ fix_first_error = TRUE /\ ASSUME_YES = TRUE
    /\ VERIFY_RETRIES = DEFAULT_RETRIES /\ ranges = <<>> /\ testing = FALSE
    /\ status_data = NoData /\ tracing = FALSE
    /\ lba \in VerifyLBAs /\ delta \in 0..MaxDelta
    /\ Defaults

\* lines 298-303: the range is computed once, before the loop
verify_call ==
    /\ pc = "verify"
    /\ attempts' = 0 /\ outcome' = "none"
    /\ vrange' = verify_range(lba, delta)
    /\ vtrace' = <<>> /\ all_interrupted' = TRUE /\ last_entry' = "none"
    /\ Call("v_attempt", <<"verify_done">>)
    /\ UNCHANGED <<cfgv, statv, globv, fixv, readv, lba, delta, selv, devv, pendcounter,
                   repaired_lba, exitcode, start_pend>>

VerifyNext ==
    \/ verify_call \/ verify_attempt \/ verify_check \/ verify_classify
    \/ ensure_no_active_selftest \/ start_selective_tests
    \/ wait_for_selftest_completion \/ wait_done

SpecVerify == VerifyInit /\ [][VerifyNext]_vars

\* ------------------------------------------------------------ properties
OneShot == skip_short /\ fix_first_error

\* C1: a fix_sector() call made while sector == lastsector invokes neither
\* hdparm nor logger and leaves lastsector unchanged, so no two consecutive
\* hdparm invocations target the same sector.
C1_Dedup ==
    /\ [][(fix_calls' # fix_calls /\ sector = lastsector)
            => (repairs' = repairs /\ logged' = logged /\ lastsector' = lastsector)]_vars
    /\ [](\A i \in 1..(Len(repairs) - 1) : repairs[i] # repairs[i + 1])

C1_Witness == fix_result = "skipped" /\ sector = lastsector /\ repairs # <<>>

\* C2: hdparm is never invoked with sector 0; a fix_sector() call with
\* sector == 0 raises, invokes neither hdparm nor logger and leaves
\* lastsector unchanged.
C2_NeverZero ==
    /\ [](\A i \in 1..Len(repairs) : repairs[i] # 0)
    /\ [][(fix_calls' # fix_calls /\ sector = 0)
            => (fix_result' = "raised" /\ repairs' = repairs /\ logged' = logged
                /\ lastsector' = lastsector)]_vars

C2_Witness == fix_result = "raised" /\ sector = 0 /\ fix_calls > 0

\* "test" (sleep "test")^n
Alternating(n) == [i \in 1..(2 * n + 1) |-> IF i % 2 = 1 THEN "test" ELSE "sleep"]

\* C3: when the latest log entry after every attempt reports an
\* interruption, the verify returns "interrupted" after exactly
\* VERIFY_RETRIES + 1 selective tests and VERIFY_RETRIES sleeps, one sleep
\* between each two consecutive tests and none before the first or after the
\* last.
C3_BoundedRetry ==
    /\ \A i \in 1..Len(vtrace) : vtrace[i] = (IF i % 2 = 1 THEN "test" ELSE "sleep")
    /\ (pc = "o_verified" /\ all_interrupted)
          => (outcome = "interrupted" /\ vtrace = Alternating(VERIFY_RETRIES))

C3_Witness ==
    /\ pc = "o_verified" /\ all_interrupted /\ VERIFY_RETRIES = MaxRetries
    /\ Len(vtrace) = 2 * MaxRetries + 1

\* C4: a verify that completes returns "clear" exactly when the PendingInfo
\* query made after the test reports failing LBA 0, "failed" exactly when it
\* reports a failing LBA > 0.
C4_Classification ==
    (pc = "o_verified" /\ outcome \in {"clear", "failed"} /\ last_read >= 0)
       => (outcome = "clear" <=> last_read = 0)

\* the reads so far are failing LBAs, pairwise distinct
DistinctFailures(seq) ==
    /\ \A i \in 1..Len(seq) : seq[i] > 0
    /\ \A i, j \in 1..Len(seq) : i # j => seq[i] # seq[j]

\* C5: counted loop, pending count k at loop start, reads reporting pairwise
\* distinct failing LBAs s1..sk and then 0: hdparm is invoked exactly k
\* times, on s1..sk in that order, and there is no (k+1)-th attempt.
C5_LoopOrder ==
    /\ (pc = "l_reread" /\ DistinctFailures(reads) /\ Len(reads) <= start_pend)
          => repairs = reads
    /\ (/\ pc = "done" /\ ~OneShot /\ start_pend >= 1
        /\ Len(reads) = start_pend + 1
        /\ reads[start_pend + 1] = 0
        /\ DistinctFailures(SubSeq(reads, 1, start_pend)))
          => (repairs = SubSeq(reads, 1, start_pend) /\ fix_calls = start_pend)

C5_Witness ==
    /\ pc = "done" /\ ~OneShot /\ start_pend = MaxPend
    /\ Len(reads) = MaxPend + 1 /\ reads[MaxPend + 1] = 0
    /\ DistinctFailures(SubSeq(reads, 1, MaxPend))
    /\ Len(repairs) = MaxPend

\* C6: counted loop: pending count -1 at loop start ends the run with a
\* non-zero exit and no repair; pending count 0 ends it with exit 0 and no
\* repair; -1 is never the loop budget.
C6_UnknownPend ==
    /\ pendcounter >= 0
    /\ start_pend = -1 => (pc = "done" /\ exitcode # 0 /\ repairs = <<>> /\ fix_calls = 0)
    /\ (start_pend = 0 /\ pc = "done") => (exitcode = 0 /\ repairs = <<>> /\ fix_calls = 0)

C6_Witness == start_pend = -1 /\ pc = "done" /\ exitcode = 1

\* C7: one-shot mode: exactly one hdparm invocation when the initial read
\* reports a failing LBA > 0, whatever the pending count; none, and exit 0,
\* when it reports 0; never a second one.
C7_OneShotOnce ==
    OneShot =>
      /\ Len(repairs) <= 1
      /\ (pc \in {"o_reread", "done"} /\ first_read > 0) => repairs = <<first_read>>
      /\ (pc = "done" /\ first_read = 0)
            => (repairs = <<>> /\ fix_calls = 0 /\ exitcode = 0)

C7_Witness ==
    /\ OneShot /\ pc = "done" /\ Len(repairs) = 1
    /\ last_read > 0 /\ last_read # repairs[1]

\* C8: every self-test start command (short or selective, each range, each
\* verify retry, the fallback short test) is issued only when the drive has
\* no self-test in progress.
C8_NoOverlap == starts_ok

\* C9: after every successful refresh_pending_and_failure() the global
\* sector is the failing LBA that response reports: the lba of the first
\* "Completed: read failure" entry when present and positive, else 0.
C9_RefreshedAsUnit == last_read >= 0 => sector = last_read

\* C10: the snapshot has in_progress exactly when the status string contains
\* "in progress" (any case) or the status value is 249.
C10_InProgress ==
    pc = "status_done"
       => (status.in_progress
             <=> (HasInProgressMarker(status_data) \/ HasSentinel(status_data)))

C10_Witness ==
    /\ pc = "status_done" /\ status.in_progress
    /\ HasInProgressMarker(status_data) /\ ~HasSentinel(status_data)
    /\ status_data.string = S_Upper

\* C11: for every lba >= 0 and delta >= 0 the range tested by the verify is
\* [max(0, lba - delta), lba + delta]: its start is never negative, its end
\* never below its start, (100, 5) gives [95, 105], (3, 5) gives [0, 8], and
\* every attempt tests that same range.
C11_VerifyRange ==
    attempts > 0 =>
      /\ vrange[1] = (IF lba - delta > 0 THEN lba - delta ELSE 0)
      /\ vrange[2] = lba + delta
      /\ vrange[1] >= 0 /\ vrange[2] >= vrange[1]
      /\ (lba = 100 /\ delta = 5) => vrange = <<95, 105>>
      /\ (lba = 3 /\ delta = 5) => vrange = <<0, 8>>
      /\ sel_ranges \in {<<>>, <<vrange>>}
      /\ (pc = "t_loop" /\ sel_i = 1) => sel_ranges = <<vrange>>

C11_Witness ==
    /\ pc = "t_loop" /\ sel_i = 1 /\ attempts = 2
    /\ lba = 3 /\ delta = 5 /\ sel_ranges = <<(<<0, 8>>)>>

\* C12: counted loop: after the first re-read that reports no failing LBA
\* the loop is over: no further fix_sector() call (repair or skip) and no
\* further PendingInfo query is made, even when budget remains.
C12_StopsOnCleared ==
    ~OneShot =>
      \A i \in 2..Len(reads) :
         reads[i] = 0 => (i = Len(reads) /\ fix_calls = i - 1)

\* C14: a diagnostic query that fails altogether (status query or
\* PendingInfo query) ends the run at once with a non-zero exit, so nothing
\* is started or repaired after it and a failed status query is never taken
\* for an idle drive.
C14_DiagFailureAborts ==
    (~status_ok \/ last_read = -1) => (pc = "done" /\ exitcode # 0)

\* a step that issues a start command: `smartctl -t short` or one
\* `smartctl -t select,...`
StartStep == pc \in {"s_start", "t_loop"} /\ pc' = "w_poll"

\* C15 as stated: with --skip-short no start command of any kind is issued
\* before the first PendingInfo read, whatever ranges were requested.
C15_NoStartBeforeRead ==
    [][(skip_short /\ first_read = -2) => ~StartStep]_vars

\* C15: with --skip-short no short test is started before the first
\* PendingInfo read; the only start commands issued before it are the
\* selective tests of the ranges given with --select, one per range, and
\* none when no range was given.
C15_SkippedBaseline ==
    /\ []((skip_short /\ first_read = -2)
            => (pc # "s_start" /\ \A i \in 1..Len(stack) : stack[i] # "s_start"))
    /\ [][(skip_short /\ pc = "m_select")
            => IF ranges = <<>> THEN pc' = "m_refresh"
               ELSE sel_ranges' = ranges /\ sel_i' = 1]_vars
    /\ [][(skip_short /\ first_read = -2 /\ StartStep)
            => (/\ pc = "t_loop" /\ stack = <<"m_refresh">>
                /\ sel_i \in 1..Len(sel_ranges) /\ sel_i' = sel_i + 1
                /\ sel_ranges' = sel_ranges)]_vars

C15_Witness ==
    /\ skip_short /\ first_read = -2 /\ pc = "w_poll"
    /\ Len(sel_ranges) = 2 /\ sel_i = 3 /\ stack = <<"t_loop", "m_refresh">>

\* C13: one-shot mode: when the re-read made after the repair attempt
\* reports no failing LBA, the run ends without offering a selective verify
\* or a short test.
C13_OneShotSuccess ==
    (OneShot /\ pc \in {"o_offer", "o_offer_short"}) => last_read # 0

\* every read so far reported the same failing LBA
SameStaleLBA == \A i \in 1..Len(reads) : reads[i] > 0 /\ reads[i] = reads[1]

\* C16: counted loop: the budget is the pending count read at loop start; a
\* re-read never changes it; every iteration that does not break takes one
\* off it, repair or skip alike; so there are at most that many iterations
\* and hdparm invocations, the loop always ends, and when every read reports
\* the same LBA hdparm is invoked exactly once.
C16_BudgetBound ==
    /\ []((~OneShot /\ start_pend >= 0) =>
            /\ pendcounter >= 0 /\ pendcounter + fix_calls = start_pend
            /\ Len(repairs) <= fix_calls
            /\ SameStaleLBA => Len(repairs) <= 1)
    /\ []((~OneShot /\ pc = "done" /\ start_pend >= 1 /\ SameStaleLBA
             /\ Len(reads) = start_pend + 1)
            => (repairs = <<reads[1]>> /\ fix_calls = start_pend /\ pendcounter = 0))
    /\ [][pc = "l_reread" => pendcounter' = pendcounter]_vars
    /\ [][(pc = "l_head" /\ pc' = "l_reread")
            => (/\ pendcounter' = pendcounter - 1 /\ fix_calls' = fix_calls + 1
                /\ fix_result' \in {"repaired", "skipped"})]_vars
    /\ (pc = "l_head" ~> pc = "done")

C16_Witness ==
    /\ ~OneShot /\ pc = "done" /\ start_pend = MaxPend /\ SameStaleLBA
    /\ Len(reads) = MaxPend + 1 /\ repairs = <<reads[1]>>
    /\ fix_calls = MaxPend /\ fix_result = "skipped"

\* C17: after every hdparm invocation, whatever its exit code, lastsector
\* is the sector just passed to it and one log line was written for it; the
\* call returns normally, so the counted loop goes on to take one off the
\* budget and re-read; a following call for the same sector is skipped.
C17_FailedRepairCounts ==
    /\ [](repairs # <<>>
            => (lastsector = repairs[Len(repairs)] /\ logged = Len(repairs)))
    /\ [][repairs' # repairs
            => (/\ repairs' = Append(repairs, sector) /\ lastsector' = sector
                /\ logged' = logged + 1 /\ fix_result' = "repaired"
                /\ hdparm_code' \in HdparmCodes)]_vars
    /\ [][(pc = "l_head" /\ repairs' # repairs)
            => (pc' = "l_reread" /\ pendcounter' = pendcounter - 1
                /\ exitcode' = exitcode)]_vars
    /\ [][(pc = "l_head" /\ fix_calls' # fix_calls /\ sector = lastsector)
            => (fix_result' = "skipped" /\ repairs' = repairs /\ logged' = logged)]_vars

C17_Witness ==
    /\ ~OneShot /\ pc = "l_reread" /\ hdparm_code = 1 /\ fix_result = "repaired"
    /\ Len(repairs) = 2 /\ lastsector = repairs[2] /\ logged = 2
    /\ pendcounter = start_pend - 2 /\ exitcode = -1

\* n cycles that found the test in progress: ("busy" "sleep")^n
BusyCycles(n) == [i \in 1..(2 * n) |-> IF i % 2 = 1 THEN "busy" ELSE "sleep"]

\* C18: each cycle of the polling loop makes one status query; it sleeps
\* only after a query that reported in_progress, and leaves at the first
\* query that reported in_progress false without sleeping again; no number
\* of in-progress reports makes it leave; with a drive that in the end
\* reports not-in-progress the loop ends.
C18_PollingLoop ==
    /\ [](pc = "w_poll" => \E n \in 0..MaxPolls : wtrace = BusyCycles(n))
    /\ [](pc = "w_done" => \E n \in 0..MaxPolls : wtrace = Append(BusyCycles(n), "idle"))
    /\ [][pc = "w_poll" =>
            \/ pc' = "w_done" /\ wtrace' = Append(wtrace, "idle")
            \/ pc' = "w_poll" /\ wtrace' = wtrace \o <<"busy", "sleep">>
            \/ pc' = "w_poll" /\ wtrace' = wtrace /\ wtrace = BusyCycles(MaxPolls)]_vars
    /\ (pc = "w_poll" ~> pc = "w_done")

C18_Witness ==
    /\ pc = "w_done" /\ testing
    /\ wtrace = <<"busy", "sleep", "busy", "sleep", "idle">>

\* a one-shot run under --assume-yes
AutoOneShot == OneShot /\ ASSUME_YES

\* C19: one-shot mode under --assume-yes, the re-read after the repair still
\* reporting the repaired LBA: the verify runs; a fallback short test is
\* started exactly when the verify returns "interrupted", so only after
\* VERIFY_RETRIES + 1 attempts, and one PendingInfo read follows it before
\* the run ends; after "clear" or "failed" the run ends with no further
\* start. A short test is never started twice.
C19_FallbackOrder ==
    /\ [][(AutoOneShot /\ pc = "o_reread" /\ last_read' = repaired_lba)
            => pc' = "o_offer"]_vars
    /\ [][(AutoOneShot /\ pc = "o_offer")
            => (pc' = "v_attempt" /\ stack' = <<"o_verified">>)]_vars
    /\ []((AutoOneShot /\ pc = "o_verified" /\ outcome = "interrupted")
            => (/\ Len(vtrace) = 2 * VERIFY_RETRIES + 1
                /\ Cardinality({i \in 1..Len(vtrace) : vtrace[i] = "test"})
                     = VERIFY_RETRIES + 1))
    /\ [][(AutoOneShot /\ pc = "o_verified")
            => IF outcome = "interrupted"
               THEN pc' = "e_query" /\ stack' = <<"s_start", "o_short_done">>
               ELSE pc' = "o_end" /\ outcome \in {"clear", "failed"}]_vars
    /\ []((AutoOneShot /\ pc = "s_start")
            => (stack = <<"o_short_done">> /\ outcome = "interrupted" /\ n_reads = 2))
    /\ [][(AutoOneShot /\ pc = "o_short_done")
            => (pc' = "o_end" /\ n_reads' = n_reads + 1)]_vars
    /\ [][(AutoOneShot /\ pc = "o_end")
            => (pc' = "done" /\ n_reads' = n_reads /\ exitcode' = 0)]_vars
    /\ []((AutoOneShot /\ pc \in {"o_end", "done"}) => n_reads <= 3)

C19_Witness ==
    /\ AutoOneShot /\ pc = "done" /\ exitcode = 0 /\ outcome = "interrupted"
    /\ n_reads = 3 /\ VERIFY_RETRIES = MaxRetries /\ repairs = <<repaired_lba>>

\* C20: whenever the verify returns "clear" or "failed", the most recent
\* history entry of its last attempt was read and reports no interruption;
\* an attempt whose entry reports an interruption or could not be read is
\* never classified.
C20_NoMisreport ==
    (pc \in {"o_verified", "verify_done"} /\ outcome \in {"clear", "failed"})
       => last_entry = "completed"

====
